---- MODULE Spec2Model ----
(***************************************************************************)
(* A model of langid.c's command-line driver (src/langid.c, main and       *)
(* rstrip_ln): option parsing, the mode dispatcher, the four stdin modes   *)
(* and the two-process parallel-corpus filter, down to the stdio buffers   *)
(* of each process and the file offsets the two processes share; and of   *)
(* the filter loop of the driver's single-process version, as an operator. *)
(*                                                                         *)
(* Text is a sequence of byte values.  The file system maps the paths of   *)
(* the files that exist to their bytes; a FILE* is a record with a read    *)
(* buffer and a write buffer, private to the process that holds it; the    *)
(* offset of an open file is shared by the orchestrator and the forked     *)
(* worker, as fork() shares open file descriptions.                        *)
(***************************************************************************)
EXTENDS Integers, Sequences, FiniteSets, TLC

(* ------------------------------ bounds --------------------------------- *)

\* most lines of a corpus that is enumerated line by line
MaxLines == 2
\* lengths of the long corpora (the 5-line source and the 3-line target of
\* the mismatched-length scenario)
LongLines == 5
MidLines == 3
\* size of a stdio buffer, in bytes: the block size the C library takes from
\* the file system (4096 is common), scaled down so that buffers fill up
BufSize == 4
\* most elements of an enumerated command line
MaxArgs == 3
\* most lines of an enumerated standard input
MaxInput == 2
\* most lines of an enumerated path list
MaxPaths == 3

(* ------------------------------ bytes ---------------------------------- *)

\* '\0' and '\n'
NUL == 0
NL == 10
\* the delimiter file mode passes to getdelim: EOF (-1), which getdelim
\* compares with the bytes read as the byte (unsigned char)-1
DELIM == 255

\* language codes, as C strings without the terminating NUL: "en", "fr",
\* "En" (differs from "en" in case only) and "la" (any other language)
en == <<101, 110>>
fr == <<102, 114>>
En == <<69, 110>>
la == <<108, 97>>

\* "NOSUCHFILE"
no_file == <<78, 79, 83, 85, 67, 72, 70, 73, 76, 69>>

Min(a, b) == IF a < b THEN a ELSE b

\* index of the first b in s, 0 when there is none (strchr, memchr)
FirstIdx(s, b) ==
  IF \E i \in 1..Len(s) : s[i] = b
  THEN CHOOSE i \in 1..Len(s) : s[i] = b /\ \A j \in 1..(i - 1) : s[j] # b
  ELSE 0

\* the C string held in a buffer whose bytes are s, followed by a NUL
CStr(s) ==
  LET i == FirstIdx(s, NUL)
  IN IF i = 0 THEN s ELSE SubSeq(s, 1, i - 1)

Zeros(n) == [i \in 1..n |-> NUL]

(* ------------------------------ stdio ---------------------------------- *)

\* write(fd, bytes) at offset off of a file holding data
SysWrite(data, off, bytes) ==
  LET base == IF off <= Len(data) THEN SubSeq(data, 1, off)
              ELSE data \o Zeros(off - Len(data))
  IN base \o bytes \o SubSeq(data, off + Len(bytes) + 1, Len(data))

\* what one read(fd, buf, BufSize) returns at offset off of data: at most
\* BufSize bytes, and from a terminal in canonical mode (canon) at most one
\* line, its newline included
ReadLen(data, off, canon) ==
  LET i == FirstIdx(SubSeq(data, off + 1, Len(data)), NL)
  IN IF canon /\ i > 0 THEN Min(BufSize, i) ELSE Min(BufSize, Len(data) - off)

\* getdelim(&line, &n, delim, fp): the stream's unread bytes are rbuf, its
\* file holds data and the descriptor stands at off; the buffer is refilled
\* by read()s, each returning ReadLen bytes.  The unit read ends with the
\* first byte equal to delim, or at end of file.  ok is FALSE for the return
\* value -1.
RECURSIVE GetDelimFrom(_, _, _, _, _, _)
GetDelimFrom(acc, rbuf, data, off, delim, canon) ==
  LET i == FirstIdx(rbuf, delim)
  IN IF i > 0
     THEN [ok |-> TRUE, line |-> acc \o SubSeq(rbuf, 1, i),
           rbuf |-> SubSeq(rbuf, i + 1, Len(rbuf)), off |-> off]
     ELSE IF off >= Len(data)
     THEN [ok |-> (acc \o rbuf) # <<>>, line |-> acc \o rbuf,
           rbuf |-> <<>>, off |-> off]
     ELSE LET n == ReadLen(data, off, canon)
          IN GetDelimFrom(acc \o rbuf, SubSeq(data, off + 1, off + n), data,
                          off + n, delim, canon)

getdelim(rbuf, data, off, delim, canon) ==
  GetDelimFrom(<<>>, rbuf, data, off, delim, canon)

\* getline(&line, &n, fp) is getdelim with '\n'
getline(rbuf, data, off, canon) == getdelim(rbuf, data, off, NL, canon)

\* fprintf(fp, ...) of bytes to a fully buffered stream whose pending bytes
\* are wbuf: what goes to the descriptor now (out) and what stays buffered.
\* Bytes that fit stay in the buffer; on overflow whole buffers are written.
\* A stream that has not been written to (fresh) has no buffer yet: its first
\* write allocates one after finding no room, so a first write of exactly
\* BufSize bytes goes to the descriptor at once.
BufferedPut(fresh, wbuf, bytes) ==
  LET all == wbuf \o bytes
      k == (Len(all) \div BufSize) * BufSize
  IN IF bytes = <<>>
     THEN [out |-> <<>>, wbuf |-> wbuf]
     ELSE IF Len(all) < BufSize \/ (Len(all) = BufSize /\ ~fresh)
     THEN [out |-> <<>>, wbuf |-> all]
     ELSE [out |-> SubSeq(all, 1, k), wbuf |-> SubSeq(all, k + 1, Len(all))]

(* --------------------------- the classifier ---------------------------- *)

\* Two language-identification models.  Each classifies a text unit by its
\* first byte: 'e' and 'f' as the model says, anything else (and the empty
\* unit) as "la".  ModelB answers "En" where ModelA answers "en".
ModelA == [b \in {101, 102} |-> IF b = 101 THEN en ELSE fr]
ModelB == [b \in {101, 102} |-> IF b = 101 THEN En ELSE fr]
Models == {ModelA, ModelB}

\* identify(lid, text, textlen): a pure, deterministic function of the model
\* and of the first textlen bytes of text
identify(m, text, len) ==
  IF len >= 1 /\ Len(text) >= 1 /\ text[1] \in DOMAIN m THEN m[text[1]] ELSE la

(* ------------------------------ inputs --------------------------------- *)

RECURSIVE Seqs(_, _)
Seqs(S, n) ==
  IF n = 0 THEN {<<>>}
  ELSE LET T == Seqs(S, n - 1) IN T \cup {Append(t, x) : t \in T, x \in S}

\* the lines of an enumerated corpus, without their terminator: "e", "f" and
\* "e\0f" (a line with an embedded NUL byte)
LineMenu == {<<101>>, <<102>>, <<101, NUL, 102>>}

RECURSIVE Texts(_, _)
Texts(menu, n) ==
  IF n = 0 THEN {<<>>}
  ELSE LET T == Texts(menu, n - 1)
       IN T \cup {t \o l \o <<NL>> : t \in T, l \in menu}

\* corpora of at most MaxLines lines; the last line may lack its terminator
Corpora ==
  Texts(LineMenu, MaxLines) \cup {t \o <<101>> : t \in Texts(LineMenu, MaxLines - 1)}

\* n lines, each the byte b and a terminator
Rep(b, n) == [i \in 1..(2 * n) |-> IF i % 2 = 1 THEN b ELSE NL]
LongCorpusE == Rep(101, LongLines)
\* two lines of exactly BufSize bytes each, terminator included
WideCorpusE == [i \in 1..(2 * BufSize) |-> IF i % BufSize = 0 THEN NL ELSE 101]
LongCorpusF == Rep(102, LongLines)
MidCorpusF == Rep(102, MidLines)

\* standard inputs of at most MaxInput lines: "e", "f", the empty line and
\* "e\377f" (a line holding the byte 255)
InputMenu == {<<101>>, <<102>>, <<>>, <<101, DELIM, 102>>}
Inputs ==
  Texts(InputMenu, MaxInput) \cup {t \o <<101>> : t \in Texts(InputMenu, MaxInput - 1)}

\* what open(path, O_RDONLY) can find: a regular file holding data, or a
\* directory; end is what lseek(fd, 0, SEEK_END) returns on it
RegularFile(data) == [dir |-> FALSE, data |-> data, end |-> Len(data)]
Directory(end) == [dir |-> TRUE, data |-> <<>>, end |-> end]

\* the paths batch mode can open: "e" holds "e\n", "f" is an empty file, "s"
\* is a directory of a file system on which a directory cannot be sought to
\* its end (lseek returns -1, as on tmpfs), "p" a directory whose end is 0
\* (as on procfs); no other path can be opened.  A directory whose end is
\* the largest offset (as on ext4) goes the way of "s": its length is not 0.
BatchDisk ==
  (<<101>> :> RegularFile(<<101, NL>>)) @@ (<<102>> :> RegularFile(<<>>))
    @@ (<<115>> :> Directory(-1)) @@ (<<112>> :> Directory(0))

\* mmap(NULL, textlen, ..., fd, 0) succeeds on a regular file that is not
\* empty; on a directory, and with the length 0, it returns MAP_FAILED
Mapped(file) == ~file.dir /\ file.end > 0

\* path lists of at most MaxPaths lines: the four paths of BatchDisk and the
\* empty path, which cannot be opened
PathMenu == {<<101>>, <<102>>, <<115>>, <<112>>, <<>>}
PathLists == Texts(PathMenu, MaxPaths)

\* values an uninitialised ssize_t may hold
Garbage == {0, 7}

(* ---------------------------- command line ----------------------------- *)

\* argv[1..]: options, and words: "w" for any word of a short command line,
\* and the four words of the filter's usage
Options == {"-l", "-b", "-m", "-f", "-x"}
Tokens == Options \cup {"w"}

\* the filter's usage: -f prefix src tgt dest
FilterUsage == <<"-f", "a", "en", "fr", "out">>

\* the bytes of a command-line element
ArgBytes(tok) ==
  CASE tok = "en" -> en
    [] tok = "fr" -> fr
    [] tok = "a" -> <<97>>
    [] tok = "w" -> <<119>>
    [] tok = "out" -> <<111, 117, 116>>
    [] tok = "out2" -> <<111, 117, 116, 50>>
    [] tok = "-l" -> <<45, 108>>
    [] tok = "-b" -> <<45, 98>>
    [] tok = "-m" -> <<45, 109>>
    [] tok = "-f" -> <<45, 102>>
    [] tok = "-x" -> <<45, 120>>

\* getopt's exchange: the non-options av[first..mid-1] change places with
\* the options av[mid..top-1] that followed them
exchange(av, first, mid, top) ==
  SubSeq(av, 1, first - 1) \o SubSeq(av, mid, top - 1)
    \o SubSeq(av, first, mid - 1) \o SubSeq(av, top, Len(av))

\* index of the first option at or after i, Len(av) + 1 when there is none
RECURSIVE SkipNonOptions(_, _)
SkipNonOptions(av, i) ==
  IF i > Len(av) \/ av[i] \in Options THEN i ELSE SkipNonOptions(av, i + 1)

\* One call of getopt(argc, argv, "lbmf:") with optind at argv[i]; first and
\* last are getopt's first_nonopt and last_nonopt, the range of non-options
\* it has skipped.  GNU getopt permutes argv: the options a call has passed
\* are moved in front of the non-options skipped before them, and the call
\* that returns -1 leaves optind at the first non-option.  Only 'f' is
\* followed by ':' in the option string: -f takes the next element, whatever
\* it is, as its argument, and -m takes none, so its optarg is NULL.
\* c is the value returned ("end" for -1).
getopt(av, i, first, last) ==
  LET l1 == Min(last, i)
      f1 == Min(first, i)
      ex == f1 # l1 /\ l1 # i
      av1 == IF ex THEN exchange(av, f1, l1, i) ELSE av
      f2 == IF ex THEN f1 + (i - l1) ELSE IF l1 # i THEN i ELSE f1
      j == SkipNonOptions(av1, i)
      R(c, oi, oa) == [c |-> c, optind |-> oi, optarg |-> oa, argv |-> av1,
                       first_nonopt |-> f2, last_nonopt |-> j]
  IN IF j > Len(av1) THEN R("end", IF f2 # j THEN f2 ELSE j, "NULL")
     ELSE IF av1[j] = "-l" THEN R("l", j + 1, "NULL")
     ELSE IF av1[j] = "-b" THEN R("b", j + 1, "NULL")
     ELSE IF av1[j] = "-m" THEN R("m", j + 1, "NULL")
     ELSE IF av1[j] = "-f" /\ j < Len(av1) THEN R("f", j + 2, av1[j + 1])
     ELSE R("?", j + 1, "NULL")

\* whether the option loop ends normally with f_flag set
RECURSIVE SelectsFilter(_, _, _, _, _)
SelectsFilter(av, i, first, last, f) ==
  LET g == getopt(av, i, first, last)
  IN IF g.c = "end" THEN f
     ELSE IF g.c = "?" THEN FALSE
     ELSE SelectsFilter(g.argv, g.optind, g.first_nonopt, g.last_nonopt,
                        f \/ g.c = "f")

\* Filter mode reads argv[2..5]: the command lines enumerated are those
\* that supply them (argc >= 6) whenever they select filter mode.
ArgvOk(av) == SelectsFilter(av, 1, 1, 1, FALSE) => Len(av) >= 5

\* argv as the option loop leaves it, <<>> when the loop ends in exit(1)
RECURSIVE Permuted(_, _, _, _)
Permuted(av, i, first, last) ==
  LET g == getopt(av, i, first, last)
  IN IF g.c = "end" THEN g.argv
     ELSE IF g.c = "?" THEN <<>>
     ELSE Permuted(g.argv, g.optind, g.first_nonopt, g.last_nonopt)

ShortArgvs == {av \in Seqs(Tokens, MaxArgs) : ArgvOk(av)}
FilterArgvs == {FilterUsage \o t : t \in Seqs({"-l", "-b", "-m", "-x"}, MaxArgs - 1)}
              \cup {<<"-l">> \o FilterUsage, <<"-m">> \o FilterUsage}

(* ------------------------------- state --------------------------------- *)

Procs == {"P", "C"}
\* the six files of filter mode, named as the variables holding their paths
Files == {"src_file", "tgt_file", "src_dest", "tgt_dest", "src_lid", "tgt_lid"}
AllFiles == Files \cup {"stdin"}

VARIABLES
  cmdline,      \* the command line after argv[0], as the program was given it
  argv,         \* argv[1..], which getopt permutes
  first_nonopt, last_nonopt,  \* getopt's range of skipped non-options
  tty,          \* isatty(fileno(stdin))
  seekable,     \* standard input is a regular file: lseek on it succeeds,
                \* as it does not on a pipe or a terminal
  out_tty,      \* standard output is a terminal (line buffered)
  src, tgt,     \* main's src and tgt: argv[3] and argv[4], the expected
                \* language codes (empty before filter mode assigns them)
  model,        \* the language model the identifier holds
  cannot_open,  \* the files whose fopen fails
  optind, l_flag, b_flag, f_flag, model_path,
  lid,          \* the identifier of each process: "null", "live" or "freed"
  loaded_by,    \* the constructor that made it: "none", "default" or "path"
  fs,           \* the file system: the bytes of each path that exists
  offs,         \* the offset of each stream's open file, shared across fork
  fp,           \* fp[p][f]: the FILE of process p on file f
  nclose,       \* how often the orchestrator called fclose on each stream
  pc,           \* where each process stands: "P" orchestrator, "C" worker
  status,       \* the orchestrator's exit status
  out, obuf,    \* what reached standard output; each process's stdout buffer
  err,          \* what reached standard error (unbuffered)
  textlen,      \* main's textlen
  open_fds,     \* descriptors batch mode has opened and not closed
  run,          \* 1 in a first invocation, 2 in one that filters the
                \* destination files of the first
  prev,         \* the corpora and the destination files of the previous
                \* invocation
  ran,          \* the strategies entered, in order
  examined,     \* iterations of the lock-step loop in which all four reads succeeded
  n_destroy,    \* calls of destroy_identifier
  uaf           \* identify was called on an identifier that is not live

env == <<cmdline, tty, seekable, out_tty, model, cannot_open, run, prev>>
flags == <<argv, optind, first_nonopt, last_nonopt, l_flag, b_flag, f_flag,
           model_path, src, tgt>>
files == <<fs, offs, fp, nclose>>
console == <<out, obuf, err>>
hist == <<ran, examined, n_destroy, uaf, loaded_by>>
vars == <<env, flags, files, console, hist, lid, pc, status, textlen, open_fds>>

NoStream == [st |-> "null", rbuf |-> <<>>, wbuf |-> <<>>]
OpenStream == [st |-> "open", rbuf |-> <<>>, wbuf |-> <<>>]

\* The paths of the files the streams are opened on.  The six paths of
\* filter mode are built from prefix = argv[2], src = argv[3], tgt = argv[4]
\* and dest_prefix = argv[5], and are written here as the words they are
\* joined from: prefix.src, prefix.tgt, dest_prefix.src, dest_prefix.tgt,
\* prefix.lid.src and prefix.lid.tgt.
StdinPath == <<"stdin">>
Path(f) ==
  CASE f = "stdin" -> StdinPath
    [] f = "src_file" -> <<argv[2], argv[3]>>
    [] f = "tgt_file" -> <<argv[2], argv[4]>>
    [] f = "src_dest" -> <<argv[5], argv[3]>>
    [] f = "tgt_dest" -> <<argv[5], argv[4]>>
    [] f = "src_lid" -> <<argv[2], "lid", argv[3]>>
    [] f = "tgt_lid" -> <<argv[2], "lid", argv[4]>>

\* whether the file of stream f exists, and its bytes
Exists(f) == Path(f) \in DOMAIN fs
Data(f) == IF Exists(f) THEN fs[Path(f)] ELSE <<>>

\* the file system d after write(fd, bytes) on the open file of stream f
Pwrite(d, f, bytes) ==
  IF bytes = <<>> THEN d ELSE [d EXCEPT ![Path(f)] = SysWrite(@, offs[f], bytes)]

\* the file system d after process p has written out what is pending in
\* its stream on f
FlushStream(d, p, f) ==
  IF fp[p][f].st = "open" THEN Pwrite(d, f, fp[p][f].wbuf) ELSE d

\* ... and in each of the streams of order, one after the other
RECURSIVE FlushAll(_, _, _)
FlushAll(d, p, order) ==
  IF order = <<>> THEN d
  ELSE FlushAll(FlushStream(d, p, Head(order)), p, Tail(order))

\* the streams in the order of their fopen calls (stdin is open from the
\* start); exit flushes the streams from the one opened last to the first
OpenOrder == <<"stdin", "src_file", "tgt_file", "src_dest", "tgt_dest", "src_lid", "tgt_lid">>
ExitOrder == [i \in 1..Len(OpenOrder) |-> OpenOrder[Len(OpenOrder) + 1 - i]]

\* one item written to standard output
Msg(k, path, len, lang) == [k |-> k, path |-> path, len |-> len, lang |-> lang]
Banner(k) == Msg(k, <<>>, 0, <<>>)
\* one diagnostic written to standard error
Diagnostic(k, path, len) == Msg(k, path, len, <<>>)

\* the state before main's first statement, given the inputs; the corpora
\* are the files at spath and tpath, and sk tells whether standard input is
\* a regular file
StartAt(av, t, sk, ot, m, bad, spath, tpath, srcdata, tgtdata, indata, garbage) ==
  /\ cmdline = av /\ argv = av
  /\ tty = t /\ seekable = sk /\ out_tty = ot /\ model = m /\ cannot_open = bad
  /\ src = <<>> /\ tgt = <<>>
  /\ optind = 1 /\ first_nonopt = 1 /\ last_nonopt = 1
  /\ l_flag = FALSE /\ b_flag = FALSE /\ f_flag = FALSE
  /\ model_path = "NULL"
  /\ lid = [p \in Procs |-> "null"] /\ loaded_by = "none"
  /\ fs = (spath :> srcdata) @@ (tpath :> tgtdata) @@ (StdinPath :> indata)
  /\ offs = [f \in AllFiles |-> 0]
  /\ fp = [p \in Procs |-> [f \in AllFiles |->
             IF p = "P" /\ f = "stdin" THEN OpenStream ELSE NoStream]]
  /\ nclose = [f \in Files |-> 0]
  /\ pc = [p \in Procs |-> IF p = "P" THEN "getopt" ELSE "none"]
  /\ status = "running"
  /\ out = <<>> /\ obuf = [p \in Procs |-> <<>>] /\ err = <<>>
  /\ textlen = garbage
  /\ open_fds = 0
  /\ run = 1
  /\ prev = [src_file |-> <<>>, tgt_file |-> <<>>, src_dest |-> <<>>, tgt_dest |-> <<>>]
  /\ ran = <<>> /\ examined = 0 /\ n_destroy = 0 /\ uaf = FALSE

\* ... with the corpora in a.en and a.fr, and standard input a terminal or
\* a pipe
Start(av, t, ot, m, bad, srcdata, tgtdata, indata, garbage) ==
  StartAt(av, t, FALSE, ot, m, bad, <<"a", "en">>, <<"a", "fr">>, srcdata, tgtdata,
          indata, garbage)

\* a small aligned corpus pair and a small standard input, for the runs
\* that vary something else
SmallSrc == <<101, NL, 102, NL>>
SmallTgt == <<102, NL, 102, NL>>
SmallInput == <<101, NL, 102, NL>>

\* filter runs over every pair of enumerated corpora
InitCorpora ==
  \E s \in Corpora, t \in Corpora, m \in Models :
    Start(FilterUsage, FALSE, FALSE, m, {}, s, t, <<>>, 0)

\* filter runs in which one corpus is long
InitLong ==
  \E c \in Corpora, m \in Models :
    \/ Start(FilterUsage, FALSE, FALSE, m, {}, LongCorpusE, c, <<>>, 0)
    \/ Start(FilterUsage, FALSE, FALSE, m, {}, c, LongCorpusF, <<>>, 0)
    \/ Start(FilterUsage, FALSE, FALSE, m, {}, LongCorpusE, LongCorpusF, <<>>, 0)
    \/ Start(FilterUsage, FALSE, FALSE, m, {}, LongCorpusE, MidCorpusF, <<>>, 0)
    \/ Start(FilterUsage, FALSE, FALSE, m, {}, WideCorpusE, SmallTgt, <<>>, 0)

\* filter runs in which some files cannot be opened
InitOpenFailure ==
  \E bad \in SUBSET Files, ot \in BOOLEAN :
    Start(FilterUsage, FALSE, ot, ModelA, bad, SmallSrc, SmallTgt, <<>>, 0)

\* filter's usage with further options
InitFilterArgv ==
  \E av \in FilterArgvs, ot \in BOOLEAN :
    Start(av, FALSE, ot, ModelA, {}, SmallSrc, SmallTgt, <<>>, 0)

\* ... with the corpora under the names such a command line makes the
\* filter open: prefix.src and prefix.tgt of argv[2..4] as getopt leaves argv
InitFilterArgvAt ==
  \E av \in FilterArgvs, ot \in BOOLEAN :
    LET pv == Permuted(av, 1, 1, 1)
    IN /\ pv # <<>>
       /\ StartAt(av, FALSE, FALSE, ot, ModelA, {}, <<pv[2], pv[3]>>, <<pv[2], pv[4]>>,
                  SmallSrc, SmallTgt, <<>>, 0)

\* every short command line, on a terminal or not
InitArgv ==
  \E av \in ShortArgvs, t \in BOOLEAN :
    Start(av, t, FALSE, ModelA, {}, <<>>, <<>>, SmallInput, 0)

\* batch mode over every enumerated path list; textlen is uninitialised
InitBatch ==
  \E t \in BOOLEAN, sk \in BOOLEAN, ot \in BOOLEAN, i \in PathLists,
     g \in Garbage :
    /\ t => ~sk
    /\ StartAt(<<"-b">>, t, sk, ot, ModelA, {}, <<"a", "en">>, <<"a", "fr">>,
               <<>>, <<>>, i, g)

\* the stdin modes over every enumerated standard input: a terminal, a
\* pipe or a regular file
InitInput ==
  \E av \in {<<>>, <<"-l">>, <<"-b">>, <<"-l", "-b">>}, t \in BOOLEAN,
     sk \in BOOLEAN, ot \in BOOLEAN, i \in Inputs, g \in Garbage :
    /\ t => ~sk
    /\ StartAt(av, t, sk, ot, ModelA, {}, <<"a", "en">>, <<"a", "fr">>,
               <<>>, <<>>, i, g)

Init ==
  \/ InitCorpora
  \/ InitLong
  \/ InitOpenFailure
  \/ InitFilterArgv
  \/ InitFilterArgvAt
  \/ InitArgv
  \/ InitInput
  \/ InitBatch

(* --------------------------- process exit ------------------------------ *)

\* the file of stream f is one lseek works on: the files fopen opened by
\* path are regular files, standard input is one when seekable
Seekable(f) == f # "stdin" \/ seekable

\* exit(code), and a return from main: the C runtime flushes every stream
\* the process holds open, standard output included, and gives the unread
\* bytes of a stream on a seekable file back by moving the descriptor's
\* offset to the stream's position.  s and o are the streams of the process
\* and the offsets as the statements before the exit have left them: they
\* differ from fp[p] and offs in what those statements have read.
ExitAfter(p, code, s, o) ==
  /\ fs' = FlushAll(fs, p, ExitOrder)
  /\ offs' = [f \in AllFiles |->
               IF s[f].st # "open" THEN o[f]
               ELSE IF Seekable(f)
               THEN o[f] + Len(s[f].wbuf) - Len(s[f].rbuf)
               ELSE o[f] + Len(s[f].wbuf)]
  /\ fp' = [fp EXCEPT ![p] =
             [f \in AllFiles |-> [s[f] EXCEPT !.rbuf = <<>>, !.wbuf = <<>>]]]
  /\ out' = out \o obuf[p]
  /\ obuf' = [obuf EXCEPT ![p] = <<>>]
  /\ pc' = [pc EXCEPT ![p] = "exited"]
  /\ status' = IF p = "P" THEN code ELSE status

\* ... when the exit is the whole step
Exit(p, code) == ExitAfter(p, code, fp[p], offs)

\* printf of one item: a line-buffered stdout is flushed by an item that ends
\* in a newline, a fully buffered one keeps it.  o and b are what reached the
\* descriptor and what the process still buffers.
Printf(o, b, item, newline) ==
  IF out_tty /\ newline
  THEN [out |-> o \o b \o <<item>>, buf |-> <<>>]
  ELSE [out |-> o, buf |-> Append(b, item)]

(* ------------------------ options and dispatch ------------------------- *)

\* one iteration of the option loop: getopt and the switch
Getopt ==
  /\ pc["P"] = "getopt"
  /\ LET g == getopt(argv, optind, first_nonopt, last_nonopt)
     IN /\ argv' = g.argv
        /\ optind' = g.optind
        /\ first_nonopt' = g.first_nonopt
        /\ last_nonopt' = g.last_nonopt
        /\ l_flag' = (l_flag \/ g.c = "l")
        /\ b_flag' = (b_flag \/ g.c = "b")
        /\ f_flag' = (f_flag \/ g.c = "f")
        /\ model_path' = IF g.c = "m" THEN g.optarg ELSE model_path
        /\ IF g.c = "?"
           THEN /\ err' = Append(err, Diagnostic("unknown option", <<>>, 0))
                /\ Exit("P", "1")
                /\ UNCHANGED nclose
           ELSE /\ pc' = [pc EXCEPT !["P"] = IF g.c = "end" THEN "validate" ELSE "getopt"]
                /\ UNCHANGED <<files, console, status>>
  /\ UNCHANGED <<env, hist, lid, textlen, open_fds, src, tgt>>

\* the option check: l_flag && b_flag && f_flag
Conflict == l_flag /\ b_flag /\ f_flag

Validate ==
  /\ pc["P"] = "validate"
  /\ IF Conflict
     THEN /\ err' = Append(err, Diagnostic("Cannot specify both -l and -b and -f.", <<>>, 0))
          /\ Exit("P", "255")
          /\ UNCHANGED nclose
     ELSE /\ pc' = [pc EXCEPT !["P"] = "load"]
          /\ UNCHANGED <<files, console, status>>
  /\ UNCHANGED <<env, flags, hist, lid, textlen, open_fds>>

\* lid = model_path ? load_identifier(model_path) : get_default_identifier()
LoadIdentifier ==
  /\ pc["P"] = "load"
  /\ lid' = [lid EXCEPT !["P"] = "live"]
  /\ loaded_by' = IF model_path # "NULL" THEN "path" ELSE "default"
  /\ pc' = [pc EXCEPT !["P"] = "dispatch"]
  /\ UNCHANGED <<env, flags, files, console, status, textlen, open_fds,
                 ran, examined, n_destroy, uaf>>

\* a variant of Mode that looks at -l and -b before isatty: C10_Dispatch
\* must not hold of it
ModeFlagsFirst ==
  IF f_flag THEN "filter"
  ELSE IF l_flag THEN "line"
  ELSE IF b_flag THEN "batch"
  ELSE IF tty THEN "interactive"
  ELSE "file"

\* the if / else-if chain that selects the operating mode
Mode ==
  IF f_flag THEN "filter"
  ELSE IF tty THEN "interactive"
  ELSE IF l_flag THEN "line"
  ELSE IF b_flag THEN "batch"
  ELSE "file"

Dispatch ==
  /\ pc["P"] = "dispatch"
  /\ pc' = [pc EXCEPT !["P"] = Mode]
  /\ ran' = Append(ran, Mode)
  /\ UNCHANGED <<env, flags, files, console, status, textlen, open_fds, lid,
                 examined, n_destroy, uaf, loaded_by>>

(* ----------------------------- filter mode ------------------------------ *)

\* fopen(path, "r") fails on a file that does not exist or cannot be opened;
\* fopen(path, "w") and fopen(path, "w+") create the file or truncate it
Fopen(f) ==
  IF f \in cannot_open \/ (f \in {"src_file", "tgt_file"} /\ ~Exists(f))
  THEN NoStream
  ELSE OpenStream
Created(f) == f \in {"src_dest", "tgt_dest", "src_lid", "tgt_lid"} \ cannot_open

\* the banner, the four assignments from argv[2..5], the six fopen calls and
\* the check of their results.  The six paths are built from argv as getopt
\* left it.
FilterOpen ==
  /\ pc["P"] = "filter"
  /\ LET o == Printf(out, obuf["P"], Banner("langid.c filtering mode."), TRUE)
     IN /\ out' = o.out
        /\ obuf' = [obuf EXCEPT !["P"] = o.buf]
  /\ src' = ArgBytes(argv[3])
  /\ tgt' = ArgBytes(argv[4])
  /\ fp' = [fp EXCEPT !["P"] =
             [f \in AllFiles |-> IF f \in Files THEN Fopen(f) ELSE fp["P"][f]]]
  /\ fs' = [path \in DOMAIN fs \cup {Path(f) : f \in {g \in Files : Created(g)}} |->
             IF \E f \in Files : Created(f) /\ Path(f) = path THEN <<>> ELSE fs[path]]
  /\ offs' = [f \in AllFiles |-> IF f \in Files THEN 0 ELSE offs[f]]
  /\ IF \E f \in Files : Fopen(f).st = "null"
     THEN /\ err' = Append(err, Diagnostic("file open error.", <<>>, 0))
          /\ pc' = [pc EXCEPT !["P"] = "cleanup"]
     ELSE /\ err' = err
          /\ pc' = [pc EXCEPT !["P"] = "fork"]
  /\ UNCHANGED <<env, argv, optind, first_nonopt, last_nonopt, l_flag, b_flag,
                 f_flag, model_path, hist, lid, status, textlen, open_fds, nclose>>

\* fork(): the worker starts with a copy of the orchestrator's memory, stdio
\* buffers included, and shares its open files; or fork fails and main
\* returns -1
Fork ==
  /\ pc["P"] = "fork"
  /\ \/ /\ pc' = [pc EXCEPT !["P"] = "tag", !["C"] = "tag"]
        /\ fp' = [fp EXCEPT !["C"] = fp["P"]]
        /\ obuf' = [obuf EXCEPT !["C"] = obuf["P"]]
        /\ lid' = [lid EXCEPT !["C"] = lid["P"]]
        /\ UNCHANGED <<fs, offs, out, err, status>>
     \/ /\ err' = Append(err, Diagnostic("fork error.", <<>>, 0))
        /\ Exit("P", "255")
        /\ UNCHANGED lid
  /\ UNCHANGED <<env, flags, hist, textlen, open_fds, nclose>>

\* whether process p has written nothing through its stream on f yet, so
\* that the stream has no buffer: nothing is pending and the file stands at
\* offset 0 (a stream is written by one process only, from its opening on)
Unwritten(p, f) == fp[p][f].wbuf = <<>> /\ offs[f] = 0

\* One iteration of a tagging loop of process p, from corpus fin to tag file
\* fout: getline, identify, fprintf(fout, "%s\n", lang)
\* a variant in which both processes write their tags to the one tag file
\* prefix.lid.tgt: C17_Isolation must not hold of it
TagLineOneTagFile(p, fin, fout) ==
  \E r \in {getline(fp[p][fin].rbuf, Data(fin), offs[fin], FALSE)} :
  LET lang == identify(model, r.line, Len(r.line))
      w == BufferedPut(Unwritten(p, "tgt_lid"), fp[p]["tgt_lid"].wbuf, lang \o <<NL>>)
  IN /\ r.ok
     /\ fp' = [fp EXCEPT ![p][fin].rbuf = r.rbuf, ![p]["tgt_lid"].wbuf = w.wbuf]
     /\ fs' = Pwrite(fs, "tgt_lid", w.out)
     /\ offs' = [offs EXCEPT ![fin] = r.off, !["tgt_lid"] = @ + Len(w.out)]
     /\ uaf' = (uaf \/ lid[p] # "live")
     /\ UNCHANGED <<pc, status, out, obuf>>

TagLine(p, fin, fout) ==
  \E r \in {getline(fp[p][fin].rbuf, Data(fin), offs[fin], FALSE)} :
  LET lang == identify(model, r.line, Len(r.line))
      w == BufferedPut(Unwritten(p, fout), fp[p][fout].wbuf, lang \o <<NL>>)
  IN /\ r.ok
     /\ fp' = [fp EXCEPT ![p][fin].rbuf = r.rbuf, ![p][fout].wbuf = w.wbuf]
     /\ fs' = Pwrite(fs, fout, w.out)
     /\ offs' = [offs EXCEPT ![fin] = r.off, ![fout] = @ + Len(w.out)]
     /\ uaf' = (uaf \/ lid[p] # "live")
     /\ UNCHANGED <<pc, status, out, obuf>>

\* the condition that ends a tagging loop: getline returns -1
\* a variant in which getline never reports the end of the input but blocks
\* there (as on a FIFO that its writer keeps open): C19_Terminates must not
\* hold of it
TagEndBlocks(p, fin) == FALSE

TagEnd(p, fin) == ~getline(fp[p][fin].rbuf, Data(fin), offs[fin], FALSE).ok

\* the worker: tags prefix.src into prefix.lid.src, then exit(0)
WorkerTag ==
  /\ pc["C"] = "tag"
  /\ \/ TagLine("C", "src_file", "src_lid")
     \/ /\ TagEnd("C", "src_file")
        /\ Exit("C", "0")
        /\ UNCHANGED uaf
  /\ UNCHANGED <<env, flags, lid, textlen, open_fds, nclose, err,
                 ran, examined, n_destroy, loaded_by>>

\* the orchestrator: tags prefix.tgt into prefix.lid.tgt, then goes to wait
OrchestratorTag ==
  /\ pc["P"] = "tag"
  /\ \/ TagLine("P", "tgt_file", "tgt_lid")
     \/ /\ TagEnd("P", "tgt_file")
        /\ pc' = [pc EXCEPT !["P"] = "wait"]
        /\ UNCHANGED <<fs, offs, fp, uaf, status, out, obuf>>
  /\ UNCHANGED <<env, flags, lid, textlen, open_fds, nclose, err,
                 ran, examined, n_destroy, loaded_by>>

\* wait(&status) returns once the worker has terminated: its pid, or -1
\* (ECHILD, when the process was started with SIGCHLD ignored)
\* a variant in which wait does not block (as waitpid with WNOHANG would
\* not): C3_TagsCommitted must not hold of it
NoJoin == TRUE

ChildTerminated == pc["C"] = "exited"

Wait ==
  /\ pc["P"] = "wait"
  /\ ChildTerminated
  /\ \/ /\ pc' = [pc EXCEPT !["P"] = "rewind"]
        /\ UNCHANGED <<files, console, status>>
     \/ /\ err' = Append(err, Diagnostic("wait error.", <<>>, 0))
        /\ Exit("P", "255")
        /\ UNCHANGED nclose
  /\ UNCHANGED <<env, flags, hist, lid, textlen, open_fds>>

\* fseek(fp, 0L, SEEK_SET) on one stream: pending output is written, the read
\* buffer is dropped, the file offset becomes 0
\* a variant that rewinds the corpora only: C4_Positions must not hold of it
RewoundCorporaOnly == {"src_file", "tgt_file"}

Rewound == {"src_file", "tgt_file", "src_lid", "tgt_lid"}

\* a variant of fseek that moves the offset without writing the pending
\* output (lseek on the descriptor): C2_TagFiles must not hold of it
FseekDataNoFlush(d, f) == d

\* the file system d after fseek on the orchestrator's stream on f
FseekData(d, f) == FlushStream(d, "P", f)

\* ... and after the fseek calls on the streams of order that are rewound
RECURSIVE FseekAll(_, _)
FseekAll(d, order) ==
  IF order = <<>> THEN d
  ELSE FseekAll(IF Head(order) \in Rewound THEN FseekData(d, Head(order)) ELSE d,
                Tail(order))

\* the four fseek calls before the lock-step loop
Rewind ==
  /\ pc["P"] = "rewind"
  /\ fs' = FseekAll(fs, <<"src_file", "tgt_file", "src_lid", "tgt_lid">>)
  /\ offs' = [f \in AllFiles |-> IF f \in Rewound THEN 0 ELSE offs[f]]
  /\ fp' = [fp EXCEPT !["P"] =
             [f \in AllFiles |-> IF f \in Rewound THEN OpenStream ELSE fp["P"][f]]]
  /\ pc' = [pc EXCEPT !["P"] = "scan"]
  /\ UNCHANGED <<env, flags, hist, lid, status, textlen, open_fds, nclose, console>>

\* rstrip_ln(str): the C string str, cut at its first '\n'
\* a variant that leaves the terminator in place: C20_SameAsSequential must
\* not hold of it
rstrip_nothing(str) == CStr(str)

rstrip_ln(str) ==
  LET c == CStr(str)
      i == FirstIdx(c, NL)
  IN IF i > 0 THEN SubSeq(c, 1, i - 1) ELSE c

\* strcmp(a, b) == 0
streq(a, b) == CStr(a) = CStr(b)

\* a variant that tests the source tag only: C1_FilterOutput must not hold
\* of it
MatchesSrcOnly(src_l, tgt_l) == streq(src_l, src)

\* the test on the two stripped tags: both equal the expected codes
Matches(src_l, tgt_l) == streq(src_l, src) /\ streq(tgt_l, tgt)

\* what fprintf(fp, "%s", text) writes of a line buffer
\* a variant that writes the line twice: C16_Idempotent must not hold of it
EmittedTwice(text) == CStr(text) \o CStr(text)

Emitted(text) == CStr(text)

\* One evaluation of the lock-step loop's condition and, when all four
\* getline calls succeed, one execution of its body.  The && chain stops at
\* the first failing read; then the loop ends and control goes to cleanup.
\* (The four reads are bound by \E over one-element sets, so that each is
\* computed once.)
Scan ==
  /\ pc["P"] = "scan"
  /\ \E r1 \in {getline(fp["P"]["src_file"].rbuf, Data("src_file"), offs["src_file"], FALSE)},
        r2 \in {getline(fp["P"]["tgt_file"].rbuf, Data("tgt_file"), offs["tgt_file"], FALSE)},
        r3 \in {getline(fp["P"]["src_lid"].rbuf, Data("src_lid"), offs["src_lid"], FALSE)},
        r4 \in {getline(fp["P"]["tgt_lid"].rbuf, Data("tgt_lid"), offs["tgt_lid"], FALSE)} :
     LET S(f) == fp["P"][f]
         a2 == r1.ok
         a3 == a2 /\ r2.ok
         a4 == a3 /\ r3.ok
         all == a4 /\ r4.ok
         keep == all /\ Matches(rstrip_ln(r3.line), rstrip_ln(r4.line))
         w1 == BufferedPut(Unwritten("P", "src_dest"), S("src_dest").wbuf,
                           Emitted(r1.line))
         w2 == BufferedPut(Unwritten("P", "tgt_dest"), S("tgt_dest").wbuf,
                           Emitted(r2.line))
     IN /\ fp' = [fp EXCEPT !["P"] = [f \in AllFiles |->
                   CASE f = "src_file" -> [S(f) EXCEPT !.rbuf = r1.rbuf]
                     [] f = "tgt_file" /\ a2 -> [S(f) EXCEPT !.rbuf = r2.rbuf]
                     [] f = "src_lid" /\ a3 -> [S(f) EXCEPT !.rbuf = r3.rbuf]
                     [] f = "tgt_lid" /\ a4 -> [S(f) EXCEPT !.rbuf = r4.rbuf]
                     [] f = "src_dest" /\ keep -> [S(f) EXCEPT !.wbuf = w1.wbuf]
                     [] f = "tgt_dest" /\ keep -> [S(f) EXCEPT !.wbuf = w2.wbuf]
                     [] OTHER -> S(f)]]
        /\ offs' = [f \in AllFiles |->
                   CASE f = "src_file" -> r1.off
                     [] f = "tgt_file" /\ a2 -> r2.off
                     [] f = "src_lid" /\ a3 -> r3.off
                     [] f = "tgt_lid" /\ a4 -> r4.off
                     [] f = "src_dest" /\ keep -> offs[f] + Len(w1.out)
                     [] f = "tgt_dest" /\ keep -> offs[f] + Len(w2.out)
                     [] OTHER -> offs[f]]
        /\ fs' = IF keep
                 THEN Pwrite(Pwrite(fs, "src_dest", w1.out), "tgt_dest", w2.out)
                 ELSE fs
        /\ examined' = IF all THEN examined + 1 ELSE examined
        /\ pc' = [pc EXCEPT !["P"] = IF all THEN "scan" ELSE "cleanup"]
  /\ UNCHANGED <<env, flags, lid, status, textlen, open_fds, nclose, console,
                 ran, n_destroy, uaf, loaded_by>>

\* The label cleanup: fclose of every stream that is not NULL.  Both paths
\* into it are "goto cleanup"; the statements that follow the goto after the
\* loop (free, unlink of the two tag files, return 0) are never executed,
\* so no file is removed.
Cleanup ==
  /\ pc["P"] = "cleanup"
  /\ fs' = FlushAll(fs, "P", Tail(OpenOrder))
  /\ offs' = [f \in AllFiles |->
               IF f \in Files /\ fp["P"][f].st = "open"
               THEN offs[f] + Len(fp["P"][f].wbuf) ELSE offs[f]]
  /\ fp' = [fp EXCEPT !["P"] = [f \in AllFiles |->
             IF f \in Files /\ fp["P"][f].st = "open"
             THEN [st |-> "closed", rbuf |-> <<>>, wbuf |-> <<>>]
             ELSE fp["P"][f]]]
  /\ nclose' = [f \in Files |->
                 IF fp["P"][f].st = "open" THEN nclose[f] + 1 ELSE nclose[f]]
  /\ pc' = [pc EXCEPT !["P"] = "destroy"]
  /\ UNCHANGED <<env, flags, hist, lid, status, textlen, open_fds, console>>

\* destroy_identifier(lid); return 0
Destroy ==
  /\ pc["P"] = "destroy"
  /\ lid' = [lid EXCEPT !["P"] = "freed"]
  /\ n_destroy' = n_destroy + 1
  /\ Exit("P", "0")
  /\ UNCHANGED <<env, flags, textlen, open_fds, nclose, err, ran, examined, uaf, loaded_by>>

(* ----------------------------- stdin modes ------------------------------ *)

ReadStdin == getline(fp["P"]["stdin"].rbuf, Data("stdin"), offs["stdin"], tty)

\* the stream and the offset of stdin after a read r
StdinAfter(r) ==
  /\ fp' = [fp EXCEPT !["P"]["stdin"].rbuf = r.rbuf]
  /\ offs' = [offs EXCEPT !["stdin"] = r.off]
  /\ UNCHANGED <<fs, nclose>>

\* the length getline returns
RetLen(r) == IF r.ok THEN Len(r.line) ELSE -1

\* interactive mode: the banner
InteractiveStart ==
  /\ pc["P"] = "interactive"
  /\ LET o == Printf(out, obuf["P"], Banner("langid.c interactive mode."), TRUE)
     IN /\ out' = o.out
        /\ obuf' = [obuf EXCEPT !["P"] = o.buf]
  /\ pc' = [pc EXCEPT !["P"] = "prompt"]
  /\ UNCHANGED <<env, flags, files, hist, lid, status, textlen, open_fds, err>>

\* interactive mode: one iteration of the for(;;) loop, and "Bye!" on break
InteractiveStep ==
  /\ pc["P"] = "prompt"
  /\ \E r \in {ReadStdin} :
     LET n == RetLen(r)
         o1 == Printf(out, obuf["P"], Banner(">>> "), FALSE)
         lang == identify(model, r.line, n)
         o2 == IF n = 1 \/ n = -1
               THEN Printf(o1.out, o1.buf, Banner("Bye!"), TRUE)
               ELSE Printf(o1.out, o1.buf, Msg("result", <<>>, n, lang), TRUE)
     IN /\ StdinAfter(r)
        /\ textlen' = n
        /\ out' = o2.out
        /\ obuf' = [obuf EXCEPT !["P"] = o2.buf]
        /\ uaf' = (uaf \/ (n # 1 /\ n # -1 /\ lid["P"] # "live"))
        /\ pc' = [pc EXCEPT !["P"] = IF n = 1 \/ n = -1 THEN "destroy" ELSE "prompt"]
  /\ UNCHANGED <<env, flags, lid, status, err, ran, examined, n_destroy, loaded_by,
                 open_fds>>

\* line mode: one evaluation of the while condition and, on a line, the body
LineStep ==
  /\ pc["P"] = "line"
  /\ \E r \in {ReadStdin} :
     LET n == RetLen(r)
         lang == identify(model, r.line, n)
         o == Printf(out, obuf["P"], Msg("result", <<>>, n, lang), TRUE)
     IN /\ StdinAfter(r)
        /\ textlen' = n
        /\ out' = IF r.ok THEN o.out ELSE out
        /\ obuf' = IF r.ok THEN [obuf EXCEPT !["P"] = o.buf] ELSE obuf
        /\ uaf' = (uaf \/ (r.ok /\ lid["P"] # "live"))
        /\ pc' = [pc EXCEPT !["P"] = IF r.ok THEN "line" ELSE "destroy"]
  /\ UNCHANGED <<env, flags, lid, status, err, ran, examined, n_destroy, loaded_by,
                 open_fds>>

\* path[pathlen-1] = '\0': the path as the C string open() is given
PathOf(line) == CStr(SubSeq(line, 1, Len(line) - 1))

\* a variant of the batch loop without its close(fd): C13_BatchRows must not
\* hold of it
NeverClosed(opened) == 0

\* the descriptors one iteration of the batch loop closes: close(fd) stands
\* at the end of the branch taken when open succeeded
Closed(opened) == IF opened THEN 1 ELSE 0

\* batch mode: one evaluation of the while condition and, on a line, the body.
\* A path that cannot be opened leaves textlen as it was.  For one that can,
\* textlen is what lseek returns and text what mmap returns, unchecked:
\* identify is given MAP_FAILED when the path is not mapped, with a length
\* below 1, and reads nothing.  When textlen is not 0 the mapping is unmapped
\* again; munmap of MAP_FAILED fails, and the process prints a diagnostic and
\* exits with -1: no row for this path, no close(fd), no destroy_identifier.
BatchStep ==
  /\ pc["P"] = "batch"
  /\ \E r \in {ReadStdin} :
     LET path == PathOf(r.line)
         opened == path \in DOMAIN BatchDisk
         n == IF opened THEN BatchDisk[path].end ELSE textlen
         mapped == opened /\ Mapped(BatchDisk[path])
         text == IF mapped THEN BatchDisk[path].data ELSE <<>>
         lang == IF opened THEN identify(model, text, n) ELSE no_file
         munmap_fails == opened /\ n # 0 /\ ~mapped
         o == Printf(out, obuf["P"], Msg("row", path, n, lang), TRUE)
     IN \/ /\ ~r.ok
           /\ StdinAfter(r)
           /\ pc' = [pc EXCEPT !["P"] = "destroy"]
           /\ UNCHANGED <<textlen, open_fds, console, status, uaf>>
        \/ /\ r.ok /\ munmap_fails
           /\ textlen' = n
           /\ open_fds' = open_fds + 1
           /\ uaf' = (uaf \/ lid["P"] # "live")
           /\ err' = Append(err, Diagnostic("failed to munmap", path, n))
           /\ ExitAfter("P", "255", [fp["P"] EXCEPT !["stdin"].rbuf = r.rbuf],
                        [offs EXCEPT !["stdin"] = r.off])
           /\ UNCHANGED nclose
        \/ /\ r.ok /\ ~munmap_fails
           /\ StdinAfter(r)
           /\ textlen' = n
           /\ open_fds' = open_fds + (IF opened THEN 1 ELSE 0) - Closed(opened)
           /\ out' = o.out
           /\ obuf' = [obuf EXCEPT !["P"] = o.buf]
           /\ uaf' = (uaf \/ (opened /\ lid["P"] # "live"))
           /\ UNCHANGED <<pc, status, err>>
  /\ UNCHANGED <<env, flags, lid, ran, examined, n_destroy, loaded_by>>

\* file mode: getdelim(&text, &text_size, EOF, stdin) reads one unit, which
\* is all of stdin unless stdin holds the byte the delimiter is compared as
FileMode ==
  /\ pc["P"] = "file"
  /\ \E r \in {getdelim(fp["P"]["stdin"].rbuf, Data("stdin"), offs["stdin"],
                      DELIM, tty)} :
     LET n == RetLen(r)
         lang == identify(model, r.line, n)
         o == Printf(out, obuf["P"], Msg("result", <<>>, n, lang), TRUE)
     IN /\ StdinAfter(r)
        /\ textlen' = n
        /\ out' = o.out
        /\ obuf' = [obuf EXCEPT !["P"] = o.buf]
        /\ uaf' = (uaf \/ lid["P"] # "live")
  /\ pc' = [pc EXCEPT !["P"] = "destroy"]
  /\ UNCHANGED <<env, flags, lid, status, err,
                 ran, examined, n_destroy, loaded_by, open_fds>>

(* ------------------------ the sequential filter ------------------------ *)

\* The filter of the single-process version of the driver: the loop reads
\* one line of the source and, if there is one, one line of the target,
\* classifies both, and writes both with "%s" when the two codes equal the
\* expected ones.  s and t are the two input streams (unread bytes, offset),
\* dest what has been written to the two destination files.
RECURSIVE SequentialScan(_, _, _, _, _)
SequentialScan(sdata, tdata, s, t, dest) ==
  LET r1 == getline(s.rbuf, sdata, s.off, FALSE)
      r2 == getline(t.rbuf, tdata, t.off, FALSE)
      src_lang == identify(model, r1.line, Len(r1.line))
      tgt_lang == identify(model, r2.line, Len(r2.line))
      keep == streq(src_lang, src) /\ streq(tgt_lang, tgt)
  IN IF ~r1.ok THEN dest
     ELSE IF ~r2.ok THEN dest
     ELSE SequentialScan(sdata, tdata,
                         [rbuf |-> r1.rbuf, off |-> r1.off],
                         [rbuf |-> r2.rbuf, off |-> r2.off],
                         IF keep
                         THEN [src |-> dest.src \o CStr(r1.line),
                               tgt |-> dest.tgt \o CStr(r2.line)]
                         ELSE dest)

\* the destination files the sequential filter leaves for two corpora
SequentialFilter(sdata, tdata) ==
  SequentialScan(sdata, tdata, [rbuf |-> <<>>, off |-> 0], [rbuf |-> <<>>, off |-> 0],
                 [src |-> <<>>, tgt |-> <<>>])

(* ---------------------------- a second run ----------------------------- *)

\* The program is started again as a filter, with the destination prefix of
\* a first filter run that ended normally as its corpus prefix (argv[2]) and
\* the same codes and model: main begins anew, its corpora being the files
\* the first run wrote.  The file system is as the first run left it.
Rerun ==
  /\ run = 1
  /\ pc["P"] = "exited" /\ status = "0"
  /\ ran = <<"filter">>
  /\ \A f \in Files : fp["P"][f].st = "closed"
  /\ SubSeq(argv, 2, 5) = <<"a", "en", "fr", "out">>
  /\ run' = 2
  /\ prev' = [f \in {"src_file", "tgt_file", "src_dest", "tgt_dest"} |-> Data(f)]
  /\ cmdline' = <<"-f", "out", "en", "fr", "out2">>
  /\ argv' = cmdline'
  /\ src' = <<>> /\ tgt' = <<>>
  /\ optind' = 1 /\ first_nonopt' = 1 /\ last_nonopt' = 1
  /\ l_flag' = FALSE /\ b_flag' = FALSE /\ f_flag' = FALSE
  /\ model_path' = "NULL"
  /\ lid' = [p \in Procs |-> "null"] /\ loaded_by' = "none"
  /\ offs' = [f \in AllFiles |-> 0]
  /\ fp' = [p \in Procs |-> [f \in AllFiles |->
              IF p = "P" /\ f = "stdin" THEN OpenStream ELSE NoStream]]
  /\ nclose' = [f \in Files |-> 0]
  /\ pc' = [p \in Procs |-> IF p = "P" THEN "getopt" ELSE "none"]
  /\ status' = "running"
  /\ out' = <<>> /\ obuf' = [p \in Procs |-> <<>>] /\ err' = <<>>
  /\ ran' = <<>> /\ examined' = 0 /\ n_destroy' = 0 /\ uaf' = FALSE
  /\ UNCHANGED <<fs, tty, seekable, out_tty, model, cannot_open, textlen, open_fds>>

(* --------------------------- specification ----------------------------- *)

Next ==
  \/ Getopt
  \/ Validate
  \/ LoadIdentifier
  \/ Dispatch
  \/ FilterOpen
  \/ Fork
  \/ WorkerTag
  \/ OrchestratorTag
  \/ Wait
  \/ Rewind
  \/ Scan
  \/ Cleanup
  \/ Destroy
  \/ InteractiveStart
  \/ InteractiveStep
  \/ LineStep
  \/ BatchStep
  \/ FileMode
  \/ Rerun

Spec == Init /\ [][Next]_vars

\* the steps of the orchestrator
Orchestrator ==
  \/ Getopt
  \/ Validate
  \/ LoadIdentifier
  \/ Dispatch
  \/ FilterOpen
  \/ Fork
  \/ OrchestratorTag
  \/ Wait
  \/ Rewind
  \/ Scan
  \/ Cleanup
  \/ Destroy
  \/ InteractiveStart
  \/ InteractiveStep
  \/ LineStep
  \/ BatchStep
  \/ FileMode

\* the runs whose progress is examined: the filter runs in which a corpus is
\* long (the other being any enumerated corpus), those with files that do not
\* open or with further options, and the short command lines (which run
\* the stdin modes on a small input)
FairInit ==
  \/ InitLong
  \/ InitOpenFailure
  \/ InitFilterArgv
  \/ InitFilterArgvAt
  \/ InitArgv

\* Both processes are scheduled fairly: a process that can take a step (none
\* of its steps blocks but wait) eventually takes one.  Nothing obliges
\* anyone to start the program again.
FairSpec == FairInit /\ [][Next]_vars /\ WF_vars(WorkerTag) /\ WF_vars(Orchestrator)

(* ------------------------- stating the claims -------------------------- *)

\* the lines of a file, as successive getline calls return them
RECURSIVE Lines(_)
Lines(d) ==
  IF d = <<>> THEN <<>>
  ELSE LET i == FirstIdx(d, NL)
       IN IF i = 0 THEN <<d>>
          ELSE <<SubSeq(d, 1, i)>> \o Lines(SubSeq(d, i + 1, Len(d)))

NumLines(d) == Len(Lines(d))

\* a line without its terminator
Chop(l) == IF l # <<>> /\ l[Len(l)] = NL THEN SubSeq(l, 1, Len(l) - 1) ELSE l

RECURSIVE Cat(_)
Cat(ss) == IF ss = <<>> THEN <<>> ELSE Head(ss) \o Cat(Tail(ss))

Min4(a, b, c, d) == Min(Min(a, b), Min(c, d))

\* the tag file a corpus calls for: the model's code for each line, in order
TagsOf(d) ==
  Cat([i \in 1..NumLines(d) |->
        identify(model, Lines(d)[i], Len(Lines(d)[i])) \o <<NL>>])

TagFilesComplete ==
  /\ Data("src_lid") = TagsOf(Data("src_file"))
  /\ Data("tgt_lid") = TagsOf(Data("tgt_file"))
  /\ NumLines(Data("src_lid")) = NumLines(Data("src_file"))
  /\ NumLines(Data("tgt_lid")) = NumLines(Data("tgt_file"))

\* the positions the tag files select, among the first n
Selected(n) ==
  {i \in 1..n : /\ Chop(Lines(Data("src_lid"))[i]) = src
                /\ Chop(Lines(Data("tgt_lid"))[i]) = tgt}

ShortestOfFour ==
  Min4(NumLines(Data("src_file")), NumLines(Data("tgt_file")),
       NumLines(Data("src_lid")), NumLines(Data("tgt_lid")))

\* the lines of file f at the selected positions among the first n, in
\* order: whole, or each cut at its first NUL byte
Slice(f, n, cut) ==
  Cat([i \in 1..n |->
        IF i \in Selected(n)
        THEN (IF cut THEN CStr(Lines(Data(f))[i]) ELSE Lines(Data(f))[i])
        ELSE <<>>])

HasNul(l) == FirstIdx(l, NUL) > 0

\* a filter run in which all six files opened
FilterRun == ran = <<"filter">> /\ \A f \in Files : fp["P"][f].st # "null"
\* ... that has left the lock-step loop
ScanDone == FilterRun /\ pc["P"] \in {"cleanup", "destroy"}
\* ... and has ended normally
FilterOk == FilterRun /\ pc["P"] = "exited" /\ status = "0"

\* C1, as claimed: after a filter run dest.src and dest.tgt hold exactly the
\* original source and target lines of the examined positions whose two tags
\* equal the expected codes, in input order, and as many lines each.
C1_Original ==
  FilterOk =>
    /\ Data("src_dest") = Slice("src_file", examined, FALSE)
    /\ Data("tgt_dest") = Slice("tgt_file", examined, FALSE)
    /\ NumLines(Data("src_dest")) = NumLines(Data("tgt_dest"))

\* C1, amended: after a filter run dest.src and dest.tgt hold, for exactly the
\* examined positions whose two tags equal the expected codes and in input
\* order, each line as fprintf("%s") writes it, that is up to its first NUL
\* byte; when no selected line holds a NUL byte these are the original lines,
\* terminators included, and both outputs have as many lines.
C1_FilterOutput ==
  FilterOk =>
    /\ Data("src_dest") = Slice("src_file", examined, TRUE)
    /\ Data("tgt_dest") = Slice("tgt_file", examined, TRUE)
    /\ (\A i \in Selected(examined) :
           ~HasNul(Lines(Data("src_file"))[i]) /\ ~HasNul(Lines(Data("tgt_file"))[i]))
       => /\ Data("src_dest") = Slice("src_file", examined, FALSE)
          /\ Data("tgt_dest") = Slice("tgt_file", examined, FALSE)
          /\ NumLines(Data("src_dest")) = Cardinality(Selected(examined))
          /\ NumLines(Data("tgt_dest")) = Cardinality(Selected(examined))

\* a run that kept one pair and dropped another, with output longer than a
\* stdio buffer
C1_Witness ==
  /\ FilterOk
  /\ examined = 2
  /\ Cardinality(Selected(examined)) = 1
  /\ Data("src_dest") = <<101, NL>>
  /\ Data("tgt_dest") = <<102, NL>>

\* C2, as claimed: once the worker has exited and the orchestrator's wait has
\* returned, each tag file holds one code per line of its corpus, in order.
C2_Original == (FilterRun /\ pc["P"] = "rewind") => TagFilesComplete

\* C2, amended: once the worker has exited, the orchestrator's wait has
\* returned and the orchestrator has rewound its streams (the fseek calls
\* write out the tags it still buffers), each tag file holds exactly one code
\* per line of its corpus, in order, whatever the interleaving was.
C2_TagFiles ==
  (FilterRun /\ pc["P"] \in {"scan", "cleanup", "destroy"}) => TagFilesComplete

\* tagging is over, both tag files are longer than one stdio buffer
C2_Witness ==
  /\ FilterRun /\ pc["P"] = "scan" /\ examined = 0
  /\ Len(Data("src_lid")) > BufSize
  /\ Len(Data("tgt_lid")) > BufSize
  /\ Data("src_lid") # Data("tgt_lid")

\* no process holds tag bytes in a write buffer
NoPendingTags ==
  \A p \in Procs : fp[p]["src_lid"].wbuf = <<>> /\ fp[p]["tgt_lid"].wbuf = <<>>

\* what the orchestrator's stream on f has yet to deliver
Unread(f) == fp["P"][f].rbuf \o SubSeq(Data(f), offs[f] + 1, Len(Data(f)))

\* the orchestrator has begun the filtering phase: it is at the lock-step
\* loop, or has read for it, or holds or has written destination bytes
Filtering ==
  /\ ran = <<"filter">>
  /\ \/ pc["P"] = "scan"
     \/ examined > 0
     \/ \E f \in {"src_dest", "tgt_dest"} : Data(f) # <<>> \/ fp["P"][f].wbuf # <<>>

\* C3: the orchestrator reads for the filtering phase, and writes to a
\* destination file, only when the worker has terminated and every tag
\* either process produced is in its tag file, none in a write buffer; the
\* first read of each tag stream starts at the head of the complete file.
C3_TagsCommitted ==
  Filtering =>
    /\ pc["C"] = "exited"
    /\ NoPendingTags
    /\ TagFilesComplete
    /\ (pc["P"] = "scan" /\ examined = 0) =>
          /\ Unread("src_lid") = TagsOf(Data("src_file"))
          /\ Unread("tgt_lid") = TagsOf(Data("tgt_file"))

C3_Witness ==
  /\ FilterRun /\ pc["P"] = "scan" /\ examined = 1
  /\ NumLines(Data("tgt_lid")) = 2
  /\ Data("src_dest") = <<>> /\ fp["P"]["src_dest"].wbuf # <<>>

\* the lines of f after the first k
Beyond(f, k) == Cat(SubSeq(Lines(Data(f)), k + 1, NumLines(Data(f))))

\* C4: the lock-step loop examines the positions 1 .. n, n the least of the
\* four files' line counts: it starts at the first line of each file, has
\* taken the same number of lines from each of the four whenever it tests
\* its condition, and ends, with no diagnostic, at the first test in which a
\* read fails; no more pairs are emitted than positions examined.
C4_Positions ==
  /\ (FilterRun /\ pc["P"] = "scan") =>
        /\ examined <= ShortestOfFour
        /\ \A f \in {"src_file", "tgt_file", "src_lid", "tgt_lid"} :
              Unread(f) = Beyond(f, examined)
  /\ ScanDone => examined = ShortestOfFour /\ err = <<>>
  /\ (ScanDone /\ pc["P"] = "destroy") =>
        /\ NumLines(Data("src_dest")) <= examined
        /\ NumLines(Data("tgt_dest")) <= examined

\* the 5-line source and the 3-line target: 3 positions examined
C4_Witness ==
  /\ ScanDone
  /\ NumLines(Data("src_file")) = LongLines
  /\ NumLines(Data("tgt_file")) = MidLines
  /\ examined = MidLines

\* C5, as claimed: a filter run that reaches the end of the filtering phase
\* has deleted both tag files by the time the process exits.
C5_Original ==
  FilterOk => ~Exists("src_lid") /\ ~Exists("tgt_lid")

\* C6, as claimed: in every run that loaded the model, destroy_identifier has
\* been called exactly once when the process exits, and identify was never
\* called on a released identifier.
C6_Original ==
  (pc["P"] = "exited" /\ loaded_by # "none") => n_destroy = 1 /\ ~uaf

\* C7, as claimed: when a filter run exits, fclose has been called exactly
\* once on every stream whose fopen succeeded, and never on one whose fopen
\* failed.
C7_Original ==
  (pc["P"] = "exited" /\ ran = <<"filter">>) =>
    \A f \in Files : nclose[f] = IF fp["P"][f].st = "null" THEN 0 ELSE 1

Reported(m) == \E i \in 1..Len(err) : err[i].k = m

\* C8, as claimed: a run exits with 0 only when its mode completed without
\* an error; with 255 after a file-open, fork or wait failure; with 1 after
\* an unrecognized option.
C8_Original ==
  pc["P"] = "exited" =>
    /\ status = "0" => err = <<>>
    /\ Reported("file open error.") => status = "255"
    /\ Reported("fork error.") => status = "255"
    /\ Reported("wait error.") => status = "255"
    /\ Reported("unknown option") => status = "1"

FlagsSet ==
  (IF l_flag THEN 1 ELSE 0) + (IF b_flag THEN 1 ELSE 0) + (IF f_flag THEN 1 ELSE 0)

\* C9, as claimed: with two or more of -l, -b, -f set the process never gets
\* past option validation: no model is loaded, no file opened, no strategy
\* entered, and it exits with a non-zero status.
C9_Original ==
  FlagsSet >= 2 =>
    /\ pc["P"] \in {"getopt", "validate", "exited"}
    /\ loaded_by = "none"
    /\ ran = <<>>
    /\ \A f \in Files : fp["P"][f].st = "null"
    /\ pc["P"] = "exited" => status # "0"

\* the strategy whose code the orchestrator is in, "" outside the strategies
Running ==
  CASE pc["P"] \in {"filter", "fork", "tag", "wait", "rewind", "scan", "cleanup"} -> "filter"
    [] pc["P"] \in {"interactive", "prompt"} -> "interactive"
    [] pc["P"] = "line" -> "line"
    [] pc["P"] = "batch" -> "batch"
    [] pc["P"] = "file" -> "file"
    [] OTHER -> ""

\* C10, as claimed: one strategy per run: filter if -f, line if -l, batch if
\* -b, and only with none of the three set interactive on a terminal and file
\* mode otherwise.
C10_Original ==
  ran # <<>> =>
    ran = << IF f_flag THEN "filter"
             ELSE IF l_flag THEN "line"
             ELSE IF b_flag THEN "batch"
             ELSE IF tty THEN "interactive"
             ELSE "file" >>

\* C10, amended: a run whose options pass validation enters exactly one
\* strategy and no other: filter if -f is set; otherwise interactive when
\* stdin is a terminal, whether or not -l or -b is set; otherwise line if -l
\* is set, batch if -b is set, file mode if neither.
C10_Dispatch ==
  /\ Len(ran) <= 1
  /\ (loaded_by # "none" /\ pc["P"] \notin {"dispatch", "exited"}) => Len(ran) = 1
  /\ Running # "" => ran = <<Running>>
  /\ ran # <<>> =>
       ran = << IF f_flag THEN "filter"
                ELSE IF tty THEN "interactive"
                ELSE IF l_flag THEN "line"
                ELSE IF b_flag THEN "batch"
                ELSE "file" >>

\* -l with a terminal on stdin: the interactive loop is running
C10_Witness ==
  /\ l_flag /\ ~f_flag /\ tty
  /\ pc["P"] = "prompt"
  /\ ran = <<"interactive">>

\* whether the option loop, started at argv[i], meets -m as an option (not as
\* the argument of -f) with a path as the next element of the command line
RECURSIVE GivesModelPath(_, _, _, _)
GivesModelPath(av, i, first, last) ==
  LET g == getopt(av, i, first, last)
  IN IF g.c \in {"end", "?"} THEN FALSE
     ELSE \/ g.c = "m" /\ g.optind <= Len(av) /\ g.argv[g.optind] \notin Options
          \/ GivesModelPath(g.argv, g.optind, g.first_nonopt, g.last_nonopt)

\* whether the option loop meets -m at all
RECURSIVE GivesM(_, _, _, _)
GivesM(av, i, first, last) ==
  LET g == getopt(av, i, first, last)
  IN IF g.c \in {"end", "?"} THEN FALSE
     ELSE g.c = "m" \/ GivesM(g.argv, g.optind, g.first_nonopt, g.last_nonopt)

\* C11, as claimed: a run that passes option validation constructs the model
\* once: from the supplied path when the command line holds -m <path>, the
\* default constructor not being called, and by the default constructor when
\* there is no -m.
C11_Original ==
  loaded_by # "none" =>
    /\ GivesModelPath(cmdline, 1, 1, 1) => loaded_by = "path"
    /\ ~GivesM(cmdline, 1, 1, 1) => loaded_by = "default"

\* every item the orchestrator has printed to standard output, written or
\* still buffered
Printed == out \o obuf["P"]

\* the paths of the lines batch mode has consumed from the path list
PathsRead ==
  LET all == Lines(Data("stdin"))
      left == Lines(Unread("stdin"))
  IN [i \in 1..(Len(all) - Len(left)) |-> PathOf(all[i])]

\* C12, as claimed: in batch mode the row of every path that cannot be
\* opened, wherever it stands in the path list, has the "no file" sentinel as
\* its language and 0 as its length.
C12_Original ==
  ran = <<"batch">> =>
    \A i \in 1..Len(Printed) :
      (i <= Len(PathsRead) /\ PathsRead[i] \notin DOMAIN BatchDisk) =>
        Printed[i].lang = no_file /\ Printed[i].len = 0

\* the row batch mode owes for a path, but for its length field
RowOf(path) ==
  IF path \in DOMAIN BatchDisk
  THEN [k |-> "row", path |-> path,
        lang |-> identify(model, BatchDisk[path].data, Len(BatchDisk[path].data))]
  ELSE [k |-> "row", path |-> path, lang |-> no_file]

\* the paths of the whole path list, line by line
AllPaths ==
  LET all == Lines(Data("stdin")) IN [i \in 1..Len(all) |-> PathOf(all[i])]

\* a path that can be opened but not mapped, with a length that is not 0
Unmappable(path) ==
  /\ path \in DOMAIN BatchDisk
  /\ BatchDisk[path].dir
  /\ BatchDisk[path].end # 0

\* the position of the first such path in the list, 0 when there is none
FirstUnmappable ==
  IF \E i \in 1..Len(AllPaths) : Unmappable(AllPaths[i])
  THEN CHOOSE i \in 1..Len(AllPaths) :
         Unmappable(AllPaths[i]) /\ \A j \in 1..(i - 1) : ~Unmappable(AllPaths[j])
  ELSE 0

\* the rows printed so far are those of the first lines of the path list,
\* in order
RowsInOrder ==
  /\ Len(Printed) <= Len(AllPaths)
  /\ \A i \in 1..Len(Printed) :
       [k |-> Printed[i].k, path |-> Printed[i].path, lang |-> Printed[i].lang]
         = RowOf(AllPaths[i])

C14_Original ==
  /\ (ran = <<"file">> /\ Data("stdin") = <<>> /\ pc["P"] \in {"destroy", "exited"}) =>
        /\ Len(Printed) = 1
        /\ Printed[1].len = 0
  /\ ran = <<"batch">> =>
        \A i \in 1..Len(Printed) :
          (i <= Len(PathsRead) /\ PathsRead[i] \in DOMAIN BatchDisk
             /\ ~BatchDisk[PathsRead[i]].dir
             /\ BatchDisk[PathsRead[i]].data = <<>>) => Printed[i].len = 0

\* the input lines that precede the first terminating event of the
\* interactive loop: the first line that holds only the terminator, or the
\* end of the input
BeforeStop(d) ==
  LET L == Lines(d)
      i == FirstIdx(L, <<NL>>)
  IN IF i = 0 THEN L ELSE SubSeq(L, 1, i - 1)

IsResult(m) == m.k = "result"
IsBye(m) == m.k = "Bye!"

\* C15, as claimed: the interactive loop prints one result line for every
\* input line read before the first end of input or newline-only line, does
\* not classify that line, and prints the farewell once, after the last
\* result line.
C15_Original ==
  (ran = <<"interactive">> /\ pc["P"] \in {"destroy", "exited"}) =>
    LET want == BeforeStop(Data("stdin"))
        got == SelectSeq(Printed, IsResult)
    IN /\ Len(got) = Len(want)
       /\ \A i \in 1..Len(got) :
            /\ got[i].len = Len(want[i])
            /\ got[i].lang = identify(model, want[i], Len(want[i]))
       /\ Len(SelectSeq(Printed, IsBye)) = 1
       /\ IsBye(Printed[Len(Printed)])

\* a second filter run, over the destination files of a first one, has ended
\* normally
SecondRunOk == run = 2 /\ FilterOk

\* C16, as claimed: filtering the destination files of a previous filter run
\* again, with the same codes and the same model, yields destination files
\* identical to that input.
C16_Original ==
  SecondRunOk =>
    /\ Data("src_dest") = prev.src_dest
    /\ Data("tgt_dest") = prev.tgt_dest

NulFree(d) == FirstIdx(d, NUL) = 0

\* C16, amended: filter mode is idempotent on corpora that hold no NUL byte:
\* filtering the destination files of a previous filter run over such
\* corpora again, with the same codes and the same model, a pure function of
\* the line, examines every line pair of those files and yields destination
\* files identical to them.
C16_Idempotent ==
  (SecondRunOk /\ NulFree(prev.src_file) /\ NulFree(prev.tgt_file)) =>
    /\ Data("src_dest") = prev.src_dest
    /\ Data("tgt_dest") = prev.tgt_dest
    /\ Data("src_file") = prev.src_dest
    /\ Data("tgt_file") = prev.tgt_dest
    /\ examined = NumLines(prev.src_dest)
    /\ examined = NumLines(prev.tgt_dest)

\* a second run over the one pair a first run kept of two
C16_Witness ==
  /\ SecondRunOk
  /\ NulFree(prev.src_file) /\ NulFree(prev.tgt_file)
  /\ NumLines(prev.src_file) = 2 /\ NumLines(prev.tgt_file) = 2
  /\ prev.src_dest = <<101, NL>> /\ prev.tgt_dest = <<102, NL>>
  /\ Data("src_dest") = <<101, NL>>

\* a step of the worker, and a step of the orchestrator's tagging loop: the
\* process is in its loop and its streams or its position change
WorkerStep ==
  pc["C"] = "tag" /\ (fp'["C"] # fp["C"] \/ pc'["C"] # pc["C"])
OrchestratorTagStep ==
  pc["P"] = "tag" /\ (fp'["P"] # fp["P"] \/ pc'["P"] # pc["P"])

\* a step of process p that reads file fin only and writes file fout only,
\* among the files of the run, and leaves the other process as it is
Touches(p, q, fin, fout) ==
  /\ DOMAIN fs' = DOMAIN fs
  /\ \A path \in DOMAIN fs \ {Path(fout)} : fs'[path] = fs[path]
  /\ \A f \in AllFiles \ {fin, fout} : offs'[f] = offs[f] /\ fp'[p][f] = fp[p][f]
  /\ offs'[fout] >= offs[fout]
  /\ fp'[p][fin].wbuf = <<>> /\ fp'[p][fout].rbuf = <<>>
  /\ fp'[q] = fp[q] /\ pc'[q] = pc[q]
  /\ examined' = examined

\* C17: in the tagging phase no file of the run is touched by both
\* processes.  Every step of the worker reads prefix.src only and writes
\* prefix.lid.src only; every step of the orchestrator's tagging loop reads
\* prefix.tgt only and writes prefix.lid.tgt only; neither changes a stream
\* of the other.  The worker goes from its tagging loop to its exit, when
\* prefix.src is exhausted, and nowhere else: it never runs the filtering
\* phase, and dest.src and dest.tgt are never written by it.  (Standard
\* output is not one of the files of the run: see C18.)  The files are
\* taken by path, and the files of one process are not those of the other
\* when the two codes differ.
C17_Isolation ==
  [][ /\ WorkerStep =>
           /\ Touches("C", "P", "src_file", "src_lid")
           /\ src # tgt => \A g \in {"tgt_file", "tgt_lid"} : fs'[Path(g)] = fs[Path(g)]
           /\ pc'["C"] \in {"tag", "exited"}
           /\ pc'["C"] = "exited" =>
                 /\ fp["C"]["src_file"].rbuf = <<>>
                 /\ offs["src_file"] >= Len(Data("src_file"))
           /\ fs'[Path("src_dest")] = fs[Path("src_dest")]
           /\ fs'[Path("tgt_dest")] = fs[Path("tgt_dest")]
      /\ OrchestratorTagStep =>
           /\ Touches("P", "C", "tgt_file", "tgt_lid")
           /\ src # tgt => \A g \in {"src_file", "src_lid"} : fs'[Path(g)] = fs[Path(g)]
           /\ pc'["P"] \in {"tag", "wait"}
      /\ pc'["C"] \in {"none", "tag", "exited"}
    ]_vars

\* the worker has exited and its tags are in prefix.lid.src, while the
\* orchestrator is still tagging and holds tags of its own in its buffer
C17_Witness ==
  /\ FilterRun
  /\ pc["C"] = "exited" /\ pc["P"] = "tag"
  /\ Data("src_lid") = TagsOf(Data("src_file")) /\ Len(Data("src_lid")) > BufSize
  /\ fp["P"]["tgt_lid"].wbuf # <<>>
  /\ Data("src_dest") = <<>> /\ Data("tgt_dest") = <<>>

IsFilterBanner(m) == m.k = "langid.c filtering mode."

\* C18, as claimed: a filter run puts the banner "langid.c filtering mode."
\* on standard output exactly once, whether standard output is line buffered
\* or fully buffered.
C18_Original ==
  (ran = <<"filter">> /\ pc["P"] = "exited") =>
    Len(SelectSeq(out, IsFilterBanner)) = 1

\* a filter run whose six files opened and whose fork succeeded
Forked == FilterRun /\ pc["C"] # "none"

\* C19, as claimed: under fair scheduling a filter run whose files opened and
\* whose fork succeeded always has its worker exit, its wait return, and its
\* orchestrator finish the filtering phase and reach cleanup.
C19_Original ==
  /\ (Forked /\ pc["C"] = "tag") ~> (pc["C"] = "exited")
  /\ (Forked /\ pc["P"] = "tag") ~> (pc["P"] = "cleanup")

\* C19, amended: under fair scheduling a filter run over finite corpora whose
\* files opened and whose fork succeeded always terminates: the worker
\* eventually exits; the orchestrator eventually reaches wait, and wait
\* eventually returns, so it never blocks forever at the join; when wait
\* succeeds the orchestrator eventually finishes the filtering phase and
\* reaches cleanup, and when wait fails it reports the error and exits with
\* 255 without filtering; either way the process exits.
C19_Terminates ==
  /\ (Forked /\ pc["C"] = "tag") ~> (pc["C"] = "exited")
  /\ (Forked /\ pc["P"] = "tag") ~> (pc["P"] = "wait")
  /\ (Forked /\ pc["P"] = "wait") ~>
        (pc["P"] = "rewind" \/ (pc["P"] = "exited" /\ Reported("wait error.")))
  /\ (Forked /\ pc["P"] = "rewind") ~> (pc["P"] = "cleanup")
  /\ (Forked /\ pc["P"] = "cleanup") ~> (pc["P"] = "exited" /\ status = "0")
  /\ (Forked /\ pc["P"] = "tag") ~> (pc["P"] = "exited" /\ pc["C"] = "exited")
  /\ [](Forked /\ pc["P"] = "exited" /\ Reported("wait error.") =>
          status = "255" /\ examined = 0)

\* a run over the long corpora has gone through the join and ended
C19_Witness ==
  /\ Forked /\ pc["P"] = "exited" /\ pc["C"] = "exited" /\ status = "0"
  /\ examined = LongLines
  /\ NumLines(Data("src_dest")) = LongLines

\* C20: for the same corpora, expected codes and model, a run of the
\* two-process filter that ends normally leaves in dest.src and dest.tgt
\* exactly the bytes the sequential filter writes.
C20_SameAsSequential ==
  FilterOk =>
    /\ Data("src_dest") = SequentialFilter(Data("src_file"), Data("tgt_file")).src
    /\ Data("tgt_dest") = SequentialFilter(Data("src_file"), Data("tgt_file")).tgt

\* the 5-line source against the 3-line target: both filters keep the first
\* three pairs
C20_Witness ==
  /\ FilterOk /\ run = 1
  /\ Data("src_file") = LongCorpusE /\ Data("tgt_file") = MidCorpusF
  /\ Data("src_dest") = Rep(101, MidLines)
  /\ SequentialFilter(Data("src_file"), Data("tgt_file")).tgt = MidCorpusF
  /\ model = ModelA

====
